---- MODULE Spec2Model ----
(***************************************************************************)
(* Model of firmware/color_control_server/color_control_server.ino: the    *)
(* number parser, the web server callbacks, setup() and the NVS            *)
(* namespaces "pixels" and "color_corr".                                   *)
(*                                                                         *)
(* A String is a sequence of one-character strings.  A uint32_t is a       *)
(* record [hi, lo]: hi is the top byte, lo the low 24 bits, so that        *)
(* `x & 0xFFFFFF` is x.lo and no intermediate value leaves TLC's integers. *)
(***************************************************************************)
EXTENDS Integers, Sequences, FiniteSets, TLC

\* Number of LEDs in the strip (header comment: "Change num_pixels to the
\* number of LEDs in your LED strip"); the model uses a short strip.
num_pixels == 3

\* #define CLEAR_PREFS 0
CLEAR_PREFS == 0

Two24 == 16777216

U32(h, l) == [hi |-> h, lo |-> l]

ULONG_MAX == U32(255, Two24 - 1)

\* x & 0xFFFFFF followed by CRGB(uint32_t colorcode)
Low24(x) == x.lo

\* a uint32_t compared with a small non-negative int
GreaterThan(x, n) == x.hi > 0 \/ x.lo > n

(***************************************************************************)
(* Characters and Arduino String helpers                                   *)
(***************************************************************************)
DecDigits == {"0", "1", "2", "3", "4", "5", "6", "7", "8", "9"}

HexLower == {"a", "b", "c", "d", "e", "f"}

HexUpper == {"A", "B", "C", "D", "E", "F"}

isdigit(c) == c \in DecDigits

isxdigit(c) == c \in DecDigits \cup HexLower \cup HexUpper

isspace(c) == c = " "

\* numeric value of a character as strtoul reads it (36 = not alphanumeric)
DigitVal(c) ==
  CASE c = "0" -> 0 [] c = "1" -> 1 [] c = "2" -> 2 [] c = "3" -> 3
    [] c = "4" -> 4 [] c = "5" -> 5 [] c = "6" -> 6 [] c = "7" -> 7
    [] c = "8" -> 8 [] c = "9" -> 9
    [] c \in {"a", "A"} -> 10 [] c \in {"b", "B"} -> 11
    [] c \in {"c", "C"} -> 12 [] c \in {"d", "D"} -> 13
    [] c \in {"e", "E"} -> 14 [] c \in {"f", "F"} -> 15
    [] c \in {"x", "X"} -> 33
    [] c = "z" -> 35
    [] OTHER -> 36

RECURSIVE TrimLeft(_)
TrimLeft(s) ==
  IF s # <<>> /\ isspace(Head(s)) THEN TrimLeft(Tail(s)) ELSE s

RECURSIVE TrimRight(_)
TrimRight(s) ==
  IF s # <<>> /\ isspace(s[Len(s)])
  THEN TrimRight(SubSeq(s, 1, Len(s) - 1))
  ELSE s

\* String::trim()
trim(s) == TrimRight(TrimLeft(s))

\* String::startsWith(prefix)
startsWith(s, p) == Len(s) >= Len(p) /\ SubSeq(s, 1, Len(p)) = p

\* String::indexOf(ch): 0-based index of the first ch, -1 when absent
indexOf(s, ch) ==
  IF \E i \in 1..Len(s) : s[i] = ch
  THEN (CHOOSE i \in 1..Len(s) : s[i] = ch /\ \A j \in 1..(i - 1) : s[j] # ch) - 1
  ELSE -1

\* String::substring(0, pos)
substring0(s, pos) == SubSeq(s, 1, pos)

\* String::remove(0, count)
remove0(s, count) == SubSeq(s, count + 1, Len(s))

(***************************************************************************)
(* isValidNumber / strtoul / getNumber                                     *)
(***************************************************************************)
isValidNumber(value) ==
  LET v == trim(value) IN
  IF startsWith(v, <<"#">>)
  THEN \A i \in 2..Len(v) : isxdigit(v[i])
  ELSE IF startsWith(v, <<"0", "x">>) \/ startsWith(v, <<"0", "X">>)
  THEN \A i \in 3..Len(v) : isxdigit(v[i])
  ELSE \A i \in 1..Len(v) : isdigit(v[i])

\* Accumulate keeping the low 32 bits of the product instead of saturating
AccumulateWrapping(st, base, d) ==
  LET t == st.acc.lo * base + d
      nlo == t % Two24
      nhi == (st.acc.hi * base + (t \div Two24)) % 256
  IN [acc |-> U32(nhi, nlo), over |-> FALSE]

\* one digit of strtoul's accumulation: acc * base + d, saturating at
\* ULONG_MAX once the product no longer fits 32 bits (ERANGE)
Accumulate(st, base, d) ==
  LET t == st.acc.lo * base + d
      nlo == t % Two24
      nhi == st.acc.hi * base + (t \div Two24)
  IN IF st.over \/ nhi > 255
     THEN [acc |-> st.acc, over |-> TRUE]
     ELSE [acc |-> U32(nhi, nlo), over |-> FALSE]

RECURSIVE Digits(_, _, _)
Digits(s, base, st) ==
  IF s # <<>> /\ DigitVal(Head(s)) < base
  THEN Digits(Tail(s), base, Accumulate(st, base, DigitVal(Head(s))))
  ELSE IF st.over THEN ULONG_MAX ELSE st.acc

\* strtoul(s, NULL, base) for base 10 and 16 on the unsigned inputs that
\* pass isValidNumber: skip leading white space, skip a 0x prefix in base
\* 16, read digits until the first character that is not one
strtoul(s, base) ==
  LET t == TrimLeft(s)
      u == IF base = 16 /\ (startsWith(t, <<"0", "x">>) \/ startsWith(t, <<"0", "X">>))
           THEN SubSeq(t, 3, Len(t))
           ELSE t
  IN Digits(u, base, [acc |-> U32(0, 0), over |-> FALSE])

getNumber(value) ==
  IF startsWith(value, <<"#">>)
  THEN strtoul(Tail(value), 16)
  ELSE IF startsWith(value, <<"0", "x">>) \/ startsWith(value, <<"0", "X">>)
  THEN strtoul(value, 16)
  ELSE strtoul(value, 10)

\* constrain255 without the upper limit
constrain255NoClamp(x) == x.lo

\* (uint8_t)(constrain(x, 0, 255)) on a uint32_t
constrain255(x) == IF GreaterThan(x, 255) THEN 255 ELSE x.lo

(***************************************************************************)
(* FastLED: CRGB and fill_gradient_RGB (colorutils), as called at          *)
(* handleGradient.  A CRGB is the integer 0xRRGGBB.                        *)
(***************************************************************************)
Red(c) == c \div 65536

Green(c) == (c \div 256) % 256

Blue(c) == c % 256

CRGB(r, g, b) == r * 65536 + g * 256 + b

\* C integer division (truncation toward zero)
TruncDiv(a, b) == IF a >= 0 THEN a \div b ELSE -((-a) \div b)

\* channel value at step k of a ramp from channel a to channel b over
\* `divisor` steps: accum88 r88 = a << 8, advanced k times by
\* 2 * (((b - a) << 7) / divisor), high byte taken
Ramp(a, b, divisor, k) ==
  ((a * 256 + k * 2 * TruncDiv((b - a) * 128, divisor)) % 65536) \div 256

\* fill_gradient_RGB(leds, startpos, startcolor, endpos, endcolor), startpos <= endpos
fill_gradient_RGB2(leds, startpos, startcolor, endpos, endcolor) ==
  LET pixeldistance == endpos - startpos
      divisor == IF pixeldistance # 0 THEN pixeldistance ELSE 1
  IN [i \in DOMAIN leds |->
        IF startpos <= i /\ i <= endpos
        THEN CRGB(Ramp(Red(startcolor), Red(endcolor), divisor, i - startpos),
                  Ramp(Green(startcolor), Green(endcolor), divisor, i - startpos),
                  Ramp(Blue(startcolor), Blue(endcolor), divisor, i - startpos))
        ELSE leds[i]]

\* fill_gradient_RGB(leds, numLeds, c1, c2, c3), numLeds >= 1:
\* c1 -> c2 over 0..half, then c2 -> c3 over half..last
fill_gradient_RGB(leds, numLeds, c1, c2, c3) ==
  LET half == numLeds \div 2
      last == numLeds - 1
  IN fill_gradient_RGB2(fill_gradient_RGB2(leds, 0, c1, half, c2), half, c2, last, c3)

(***************************************************************************)
(* State                                                                   *)
(***************************************************************************)
VARIABLES
  strip,        \* CRGB strip[num_pixels]: the in-memory pixel buffer
  correction,   \* FastLED's active color correction <<r, g, b>>
  nvs_pixels,   \* namespace "pixels", key "color_vals": the stored words (after the whole
                \* words, possibly the bytes of a partial one), <<>> when absent
  nvs_corr,     \* namespace "color_corr": keys corr_r, corr_g, corr_b, NoKey when absent
  shown,        \* what the LEDs were last driven with: [pixels, corr]
  led,          \* level of led_pin
  clear_prefs,  \* the build's CLEAR_PREFS
  nvs_faulty,   \* whether prefs.begin can fail on this device's NVS partition
  pc,           \* "setup": setup() has run; "handler": a callback has returned; "loop": waiting in loop()
  request,      \* the request the callback served
  response,     \* the text of server.send, NoResponse when nothing was sent
  events,       \* the calls the last setup()/callback made, in order
  oob           \* array indices outside 0..num_pixels-1 written by the last callback or setup()

vars == <<strip, correction, nvs_pixels, nvs_corr, shown, led, clear_prefs,
          nvs_faulty, pc, request, response, events, oob>>

Pixels == 0..(num_pixels - 1)

Black == 0

NoKey == -1

NoResponse == "(none)"

NoRequest == [uri |-> "(none)", args |-> [none |-> <<>>]]

NoOob == [pixels |-> {}, strip |-> {}]

LOW == 0

HIGH == 1

\* the texts of server.send
RespOk == "LEDs updated successfully!"

RespCorrOk == "Color correction values applied."

RespInvalidValues == "Error: One or more values are invalid. Please enter only decimal or hex values."

RespInvalidValue == "Error: Invalid value. Please enter only decimal or hex."

RespNoForm == "Error: Could not process form"

RespNoCorrForm == "Error: Could not process color correction form"

RespTooLong == "Error: LEDs per segment larger than total LEDs"

RespFileNotFound == "File Not Found"

RespNotFound == "404: Not Found"

\* the text of /index.html (its %CORR_...% placeholders are filled from
\* the stored correction; the page plays no part in the LED state)
RespIndexHtml == "/index.html"

\* server.hasArg(name) / server.arg(name) (an absent argument reads as "")
hasArg(req, name) == name \in DOMAIN req.args

arg(req, name) == IF name \in DOMAIN req.args THEN req.args[name] ELSE <<>>

\* FastLED.clear(): every LED black
ClearedStrip == [i \in Pixels |-> Black]

\* FastLED.show(): the strip and the correction reach the LEDs
Show(s, c) == [pixels |-> s, corr |-> c]

\* the values prefs.begin(...) can return
BeginResults == IF nvs_faulty THEN BOOLEAN ELSE {TRUE}

\* a local array entry that was never assigned
Uninitialised == U32(0, -1)

\* Serial.println(text) as an event
println(text) == "Serial.println: " \o text

\* the messages printed when prefs.begin returns false
LogNoClear == println("Error: Could not open Preferences for clearing")

LogNoCorr == println("Error: Could not open Preferences. Using defaults for color correction")

LogNoSaveCorr == println("Error: Could not open NVS for saving color correction values")

LogNoSavePixels == println("Error: Could not open preferences to save pixel values")

(***************************************************************************)
(* setup()                                                                 *)
(***************************************************************************)
NoCorrKeys == [corr_r |-> NoKey, corr_g |-> NoKey, corr_b |-> NoKey]

\* getUChar with 0 as the default value
getUCharOrZero(ns, key) == IF ns[key] = NoKey THEN 0 ELSE ns[key]

\* prefs.getUChar(key, 0xFF)
getUChar(ns, key) == IF ns[key] = NoKey THEN 255 ELSE ns[key]

\* prefs.begin(name, readOnly) ... prefs.end() as events
Begin(name, ret) == IF ret THEN "begin:" \o name ELSE "begin failed:" \o name

\* the last entry of a blob whose length is not a multiple of
\* sizeof(uint32_t): k bytes, 1 <= k <= 3, of a word
PartialWord(k) == [part |-> k]

IsPartialWord(w) == DOMAIN w = {"part"}

\* prefs.getBytesLength("color_vals"): the length of the blob in bytes
getBytesLength(np) ==
  IF np # <<>> /\ IsPartialWord(np[Len(np)])
  THEN (Len(np) - 1) * 4 + np[Len(np)].part
  ELSE Len(np) * 4

\* what setup() leaves behind, given the store it finds and the results of
\* its three prefs.begin calls
SetupOutcome(np, nc, cp, retClear, retCorr, retPix) ==
  LET cleared == cp = 1 /\ retClear
      nc1 == IF cleared THEN NoCorrKeys ELSE nc
      corr == IF retCorr
              THEN <<getUChar(nc1, "corr_r"), getUChar(nc1, "corr_g"), getUChar(nc1, "corr_b")>>
              ELSE <<255, 255, 255>>
      len == IF retPix THEN getBytesLength(np) ELSE 0
      \* prefs.getBytes("color_vals", pixels, len) copies len bytes into pixels[]
      bytes_read == IF len > 0 THEN len ELSE 0
      \* strip[] is zero-initialised at reset
      s == IF bytes_read > 0
           THEN [i \in Pixels |-> IF i < bytes_read \div 4 THEN Low24(np[i + 1]) ELSE Black]
           ELSE ClearedStrip
  IN [strip |-> s,
      correction |-> corr,
      nvs_corr |-> nc1,
      shown |-> Show(s, corr),
      \* neither getBytes nor the loop over bytes_read / sizeof(uint32_t)
      \* looks at num_pixels
      oob |-> [pixels |-> {i \in 0..((bytes_read + 3) \div 4 - 1) : i \notin Pixels},
               strip |-> {i \in 0..(bytes_read \div 4 - 1) : i \notin Pixels}],
      events |->
        <<"led_low">>
        \o (IF cp = 1
            THEN <<Begin("color_corr", retClear)>>
                 \o (IF retClear THEN <<"clear">> ELSE <<LogNoClear>>) \o <<"end">>
            ELSE <<>>)
        \o <<Begin("color_corr", retCorr)>>
        \o (IF retCorr THEN <<>> ELSE <<LogNoCorr>>)
        \o <<"end", "setCorrection", Begin("pixels", retPix), "end">>
        \o (IF bytes_read > 0 THEN <<"strip">> ELSE <<"clear strip">>)
        \o <<"show">>]

\* how a setup() that wrote outside its arrays can end: the stray writes go
\* unnoticed, or the chip panics (a reset from there is setup() once more)
BootFates(outside) == IF outside # NoOob THEN {"setup", "halted"} ELSE {"setup"}

\* a reset: setup() runs again on the store as it is
Setup ==
  /\ pc \in {"loop", "halted"}
  /\ \E retClear \in BeginResults, retCorr \in BeginResults, retPix \in BeginResults :
       LET o == SetupOutcome(nvs_pixels, nvs_corr, clear_prefs, retClear, retCorr, retPix) IN
       /\ strip' = o.strip
       /\ correction' = o.correction
       /\ nvs_corr' = o.nvs_corr
       /\ shown' = o.shown
       /\ events' = o.events
       /\ oob' = o.oob
       /\ pc' \in BootFates(o.oob)
  /\ led' = LOW
  /\ request' = NoRequest
  /\ response' = NoResponse
  /\ UNCHANGED <<nvs_pixels, clear_prefs, nvs_faulty>>

\* loop(): the callback has returned and server.handleClient() waits for
\* the next request
loop ==
  /\ pc \in {"setup", "handler"}
  /\ pc' = "loop"
  /\ request' = NoRequest
  /\ response' = NoResponse
  /\ events' = <<>>
  /\ oob' = NoOob
  /\ UNCHANGED <<strip, correction, nvs_pixels, nvs_corr, shown, led, clear_prefs, nvs_faulty>>

\* first power-up: setup() on a store that was never written
Init ==
  LET o == SetupOutcome(<<>>, NoCorrKeys, CLEAR_PREFS, FALSE, FALSE, FALSE) IN
  /\ strip = o.strip
  /\ correction = o.correction
  /\ nvs_pixels = <<>>
  /\ nvs_corr = o.nvs_corr
  /\ shown = o.shown
  /\ led = LOW
  /\ clear_prefs = CLEAR_PREFS
  /\ nvs_faulty = FALSE
  /\ pc = "setup"
  /\ request = NoRequest
  /\ response = NoResponse
  /\ events = o.events
  /\ oob = NoOob

(***************************************************************************)
(* Web server callbacks.  Each operator gives what the callback leaves     *)
(* behind for request req when its prefs.begin returns ret: the new        *)
(* values of the state, the calls it made (events), the indices it wrote   *)
(* outside its arrays (oob) and whether it ran into the division by zero   *)
(* (trap).                                                                 *)
(***************************************************************************)
\* Rejected with the strip cleared and shown before the message is sent
RejectedAfterClear(resp) ==
  [strip |-> ClearedStrip, nvs_pixels |-> nvs_pixels, correction |-> correction,
   nvs_corr |-> nvs_corr, shown |-> Show(ClearedStrip, correction), response |-> resp,
   led |-> LOW, events |-> <<"led_high", "clear strip", "show", "send", "led_low">>,
   oob |-> NoOob, trap |-> FALSE]

\* the else branches: a message is sent and nothing else is touched
Rejected(resp) ==
  [strip |-> strip, nvs_pixels |-> nvs_pixels, correction |-> correction,
   nvs_corr |-> nvs_corr, shown |-> shown, response |-> resp, led |-> LOW,
   events |-> <<"led_high", "send", "led_low">>, oob |-> NoOob, trap |-> FALSE]

\* putBytes storing the words one place further on
putBytesRotated(pixels) == [i \in 1..num_pixels |-> pixels[i % num_pixels]]

\* prefs.putBytes("color_vals", pixels, num_pixels * sizeof(uint32_t))
putBytes(pixels) == [i \in 1..num_pixels |-> pixels[i - 1]]

\* SaveAndShow calling prefs.end() only after a successful prefs.begin
SaveAndShowNoEndOnFailure(ret) ==
  <<Begin("pixels", ret)>> \o (IF ret THEN <<"putBytes", "end">> ELSE <<LogNoSavePixels>>)
    \o <<"show">>

\* SaveAndShow printing nothing when prefs.begin fails
SaveAndShowSilent(ret) ==
  <<Begin("pixels", ret)>> \o (IF ret THEN <<"putBytes">> ELSE <<>>) \o <<"end", "show">>

\* the calls from prefs.begin("pixels", false) to the end of a callback
\* that updated the LEDs
SaveAndShow(ret) ==
  <<Begin("pixels", ret)>> \o (IF ret THEN <<"putBytes">> ELSE <<LogNoSavePixels>>)
    \o <<"end", "show">>

\* serveFile("/") as called by handleRoot: [sent, events], `exists` being
\* SPIFFS.exists("/index.html") and ret the result of prefs.begin
serveFile(exists, ret) ==
  IF exists
  THEN [sent |-> TRUE,
        events |-> <<Begin("color_corr", ret)>>
                   \o (IF ret THEN <<>> ELSE <<LogNoCorr>>) \o <<"end", "send">>]
  ELSE [sent |-> FALSE, events |-> <<>>]

handleRoot(exists, ret) ==
  LET f == serveFile(exists, ret) IN
  [Rejected(IF f.sent THEN RespIndexHtml ELSE RespFileNotFound)
     EXCEPT !.events = <<"led_high">> \o f.events
                       \o (IF f.sent THEN <<>> ELSE <<"send">>) \o <<"led_low">>]

handleNotFound == Rejected(RespNotFound)

handleColorCorrection(req, ret) ==
  IF hasArg(req, "correctionRed") /\ hasArg(req, "correctionRed") /\ hasArg(req, "correctionRed")
  THEN
    LET corr_r_str == trim(arg(req, "correctionRed"))
        corr_g_str == trim(arg(req, "correctionGreen"))
        corr_b_str == trim(arg(req, "correctionBlue"))
    IN
    IF isValidNumber(corr_r_str) /\ isValidNumber(corr_g_str) /\ isValidNumber(corr_b_str)
    THEN
      LET corr_r == constrain255(getNumber(corr_r_str))
          corr_g == constrain255(getNumber(corr_g_str))
          corr_b == constrain255(getNumber(corr_b_str))
      IN [strip |-> strip,
          nvs_pixels |-> nvs_pixels,
          correction |-> <<corr_r, corr_g, corr_b>>,
          nvs_corr |-> IF ret
                       THEN [corr_r |-> corr_r, corr_g |-> corr_g, corr_b |-> corr_b]
                       ELSE nvs_corr,
          shown |-> Show(strip, <<corr_r, corr_g, corr_b>>),
          response |-> RespCorrOk,
          led |-> LOW,
          events |-> <<"led_high", "setCorrection", Begin("color_corr", ret)>>
                     \o (IF ret THEN <<"putUChar">> ELSE <<LogNoSaveCorr>>)
                     \o <<"end", "show", "send", "led_low">>,
          oob |-> NoOob,
          trap |-> FALSE]
    ELSE Rejected(RespInvalidValues)
  ELSE Rejected(RespNoCorrForm)

\* handleSolidColor with the loop over the strip starting at 1
handleSolidColorFromOne(req, ret) ==
  IF hasArg(req, "solidColor")
  THEN
    LET color_str == arg(req, "solidColor") IN
    IF isValidNumber(color_str)
    THEN
      LET color_val == getNumber(color_str)
          pixels == [i \in Pixels |-> color_val]
          s == [i \in Pixels |-> IF i = 0 THEN strip[i] ELSE Low24(color_val)]
      IN [strip |-> s,
          nvs_pixels |-> IF ret THEN putBytes(pixels) ELSE nvs_pixels,
          correction |-> correction,
          nvs_corr |-> nvs_corr,
          shown |-> Show(s, correction),
          response |-> RespOk,
          led |-> LOW,
          events |-> <<"led_high", "showColor", "strip">> \o SaveAndShow(ret)
                     \o <<"send", "led_low">>,
          oob |-> NoOob,
          trap |-> FALSE]
    ELSE Rejected(RespInvalidValue)
  ELSE Rejected(RespNoForm)

handleSolidColor(req, ret) ==
  IF hasArg(req, "solidColor")
  THEN
    LET color_str == arg(req, "solidColor") IN
    IF isValidNumber(color_str)
    THEN
      LET color_val == getNumber(color_str)
          pixels == [i \in Pixels |-> color_val]
          s == [i \in Pixels |-> Low24(color_val)]
      IN [strip |-> s,
          nvs_pixels |-> IF ret THEN putBytes(pixels) ELSE nvs_pixels,
          correction |-> correction,
          nvs_corr |-> nvs_corr,
          shown |-> Show(s, correction),
          response |-> RespOk,
          led |-> LOW,
          events |-> <<"led_high", "showColor", "strip">> \o SaveAndShow(ret)
                     \o <<"send", "led_low">>,
          oob |-> NoOob,
          trap |-> FALSE]
    ELSE Rejected(RespInvalidValue)
  ELSE Rejected(RespNoForm)

\* TooManyLeds with the limit off by one
TooManyLedsOffByOne(leds_per_seg) == GreaterThan(leds_per_seg, num_pixels + 1)

\* if (leds_per_seg > num_pixels)
TooManyLeds(leds_per_seg) == GreaterThan(leds_per_seg, num_pixels)

\* NumSegs with the extra segment added whether or not there is a remainder
NumSegsAlwaysExtra(leds_per_seg) == num_pixels \div leds_per_seg + 1

\* number of discrete segments (with an extra for any remainder)
NumSegs(leds_per_seg) == (num_pixels + leds_per_seg - 1) \div leds_per_seg

\* SegmentLoop with the inner counter j kept from one segment to the next
RECURSIVE SegmentLoopNoRestart(_, _, _, _, _, _, _)
SegmentLoopNoRestart(i, j, idx, pixels, segs, leds_per_seg, num_segs) ==
  IF i >= num_segs THEN pixels
  ELSE IF j >= leds_per_seg
  THEN SegmentLoopNoRestart(i + 1, j, idx, pixels, segs, leds_per_seg, num_segs)
  ELSE IF idx < num_pixels
  THEN SegmentLoopNoRestart(i, j + 1, idx + 1, [pixels EXCEPT ![idx] = U32(0, segs[i])],
                            segs, leds_per_seg, num_segs)
  ELSE SegmentLoopNoRestart(i, j + 1, idx, pixels, segs, leds_per_seg, num_segs)

\* the two nested loops of handleGradient that copy segment i's color into
\* leds_per_seg consecutive entries of pixels[], never past num_pixels - 1
RECURSIVE SegmentLoop(_, _, _, _, _, _, _)
SegmentLoop(i, j, idx, pixels, segs, leds_per_seg, num_segs) ==
  IF i >= num_segs THEN pixels
  ELSE IF j >= leds_per_seg
  THEN SegmentLoop(i + 1, 0, idx, pixels, segs, leds_per_seg, num_segs)
  ELSE IF idx < num_pixels
  THEN SegmentLoop(i, j + 1, idx + 1, [pixels EXCEPT ![idx] = U32(0, segs[i])],
                   segs, leds_per_seg, num_segs)
  ELSE SegmentLoop(i, j + 1, idx, pixels, segs, leds_per_seg, num_segs)

handleGradient(req, ret) ==
  IF hasArg(req, "gradientLedsPerSegment") /\ hasArg(req, "gradientStartColor")
     /\ hasArg(req, "gradientMiddleColor") /\ hasArg(req, "gradientEndColor")
  THEN
    LET leds_per_seg_str == arg(req, "gradientLedsPerSegment")
        start_color_str == arg(req, "gradientStartColor")
        mid_color_str == arg(req, "gradientMiddleColor")
        end_color_str == arg(req, "gradientEndColor")
    IN
    IF isValidNumber(leds_per_seg_str) /\ isValidNumber(start_color_str)
       /\ isValidNumber(mid_color_str) /\ isValidNumber(end_color_str)
    THEN
      LET leds_per_seg == getNumber(leds_per_seg_str)
          start_color == getNumber(start_color_str)
          mid_color == getNumber(mid_color_str)
          end_color == getNumber(end_color_str)
      IN
      IF TooManyLeds(leds_per_seg)
      THEN \* return without turning the LED off
           [Rejected(RespTooLong) EXCEPT !.led = HIGH, !.events = <<"led_high", "send">>]
      ELSE IF leds_per_seg.lo = 0
      THEN \* (num_pixels + 0 - 1) / 0
           [Rejected(NoResponse) EXCEPT !.led = HIGH, !.trap = TRUE,
                                        !.events = <<"led_high", "divide by zero">>]
      ELSE
        LET num_segs == NumSegs(leds_per_seg.lo)
            segs == fill_gradient_RGB(strip, num_segs, Low24(start_color),
                                      Low24(mid_color), Low24(end_color))
            \* pixels[] is not initialised; the loops write every entry
            pixels == SegmentLoop(0, 0, 0, [i \in Pixels |-> Uninitialised],
                                  segs, leds_per_seg.lo, num_segs)
            s == [i \in Pixels |-> Low24(pixels[i])]
        IN [strip |-> s,
            nvs_pixels |-> IF ret THEN putBytes(pixels) ELSE nvs_pixels,
            correction |-> correction,
            nvs_corr |-> nvs_corr,
            shown |-> Show(s, correction),
            response |-> RespOk,
            led |-> LOW,
            events |-> <<"led_high", "fill_gradient_RGB", "strip">> \o SaveAndShow(ret)
                       \o <<"send", "led_low">>,
            oob |-> NoOob,
            trap |-> FALSE]
    ELSE Rejected(RespInvalidValues)
  ELSE Rejected(RespNoForm)

\* the while loop of handleSetPixels, from the state it has reached:
\* the rest of `values`, idx and pixels[]; gives [values, idx, valid, pixels]
RECURSIVE ParseLoop(_, _, _)
ParseLoop(values, idx, pixels) ==
  LET pos == indexOf(values, ",") IN
  IF pos = -1
  THEN [values |-> values, idx |-> idx, valid |-> TRUE, pixels |-> pixels]
  ELSE
    LET token == trim(substring0(values, pos))
        rest == remove0(values, pos + 1)
    IN
    IF ~isValidNumber(token)
    THEN [values |-> rest, idx |-> idx, valid |-> FALSE, pixels |-> pixels]
    ELSE IF idx + 1 >= num_pixels
    THEN [values |-> rest, idx |-> idx + 1, valid |-> TRUE,
          pixels |-> [pixels EXCEPT ![idx] = getNumber(token)]]
    ELSE ParseLoop(rest, idx + 1, [pixels EXCEPT ![idx] = getNumber(token)])

\* UpdateStrip copying all of pixels[], zeros of the memset included
UpdateStripWhole(pixels, idx) == [i \in Pixels |-> Low24(pixels[i])]

\* for (uint32_t i = 0; i <= idx; i++) strip[i] = CRGB(pixels[i] & 0xFFFFFF)
UpdateStrip(pixels, idx) ==
  [i \in Pixels |-> IF i <= idx THEN Low24(pixels[i]) ELSE strip[i]]

handleSetPixels(req, ret) ==
  IF hasArg(req, "pixelValues")
  THEN
    LET \* memset(pixels, 0, sizeof(pixels))
        p == ParseLoop(arg(req, "pixelValues"), 0, [i \in Pixels |-> U32(0, 0)])
        idx == p.idx
    IN
    IF p.valid /\ isValidNumber(p.values)
    THEN
      LET color_val == getNumber(trim(p.values))
          \* pixels[idx] = color_val lands outside pixels[] when idx = num_pixels
          pixels == IF idx \in Pixels THEN [p.pixels EXCEPT ![idx] = color_val] ELSE p.pixels
          s == UpdateStrip(pixels, idx)
          outside == {i \in 0..idx : i \notin Pixels}
      IN [strip |-> s,
          nvs_pixels |-> IF ret THEN putBytes(pixels) ELSE nvs_pixels,
          correction |-> correction,
          nvs_corr |-> nvs_corr,
          shown |-> Show(s, correction),
          response |-> RespOk,
          led |-> LOW,
          events |-> <<"led_high", "send", "strip">> \o SaveAndShow(ret) \o <<"led_low">>,
          oob |-> [pixels |-> outside, strip |-> outside],
          trap |-> FALSE]
    ELSE Rejected(RespInvalidValues)
  ELSE Rejected(RespNoForm)

(***************************************************************************)
(* Requests the clients send                                               *)
(***************************************************************************)
TokHexFF == <<"#", "F", "F">>

TokSpaceHexFF == <<" ", "#", "F", "F">>

Tok0xFF == <<"0", "x", "F", "F">>

TokEmpty == <<>>

TokHash == <<"#">>

TokZero == <<"0">>

TokBad == <<"1", "z">>

\* 2^24
Tok2p24 == <<"1", "6", "7", "7", "7", "2", "1", "6">>

\* 2^24 + 255
TokDec24 == <<"1", "6", "7", "7", "7", "4", "7", "1">>

\* 2^32
TokDecOverflow == <<"4", "2", "9", "4", "9", "6", "7", "2", "9", "6">>

DigitChars == <<"0", "1", "2", "3", "4", "5", "6", "7", "8", "9">>

\* the decimal text of n, 0 <= n <= 9
Decimal(n) == <<DigitChars[n + 1]>>

SolidTokens ==
  {TokHexFF, TokSpaceHexFF, Tok0xFF, TokEmpty, TokHash, TokBad, TokDec24, TokDecOverflow}

ValidPixelTokens == {TokSpaceHexFF, TokZero}

\* longest list of pixel values a client sends
MaxList == num_pixels + 2

RECURSIVE SeqsOfLen(_, _)
SeqsOfLen(S, n) ==
  IF n = 0 THEN {<<>>}
  ELSE {<<x>> \o t : x \in S, t \in SeqsOfLen(S, n - 1)}

\* every list of valid tokens, and the lists of one valid token with an
\* invalid token at one position
PixelLists ==
  UNION {SeqsOfLen(ValidPixelTokens, n) : n \in 1..MaxList}
  \cup {[i \in 1..n |-> IF i = p THEN TokBad ELSE TokZero] : n \in 1..MaxList, p \in 1..MaxList}

RECURSIVE Join(_)
Join(list) ==
  IF Len(list) = 1 THEN list[1] ELSE list[1] \o <<",">> \o Join(Tail(list))

Req(uri, args) == [uri |-> uri, args |-> args]

NoArgs == [other |-> <<>>]

SolidRequests ==
  {Req("/solid", [solidColor |-> t]) : t \in SolidTokens} \cup {Req("/solid", NoArgs)}

PixelRequests ==
  {Req("/pixels", [pixelValues |-> Join(l)]) : l \in PixelLists} \cup {Req("/pixels", NoArgs)}

GradientRequests ==
  {Req("/gradient", [gradientLedsPerSegment |-> l, gradientStartColor |-> a,
                     gradientMiddleColor |-> b, gradientEndColor |-> c]) :
     l \in {Decimal(n) : n \in 0..(num_pixels + 1)} \cup {Tok2p24},
     a \in {TokHexFF, TokSpaceHexFF},
     b \in {TokDecOverflow, TokEmpty},
     c \in {Tok0xFF, TokBad}}
  \cup {Req("/gradient", [gradientLedsPerSegment |-> Decimal(1), gradientStartColor |-> TokHexFF,
                          gradientMiddleColor |-> TokEmpty]),
        Req("/gradient", NoArgs)}

CorrectionRequests ==
  {Req("/color-correction", [correctionRed |-> r, correctionGreen |-> g, correctionBlue |-> b]) :
     r \in {<<"1", "6">>, TokBad}, g \in {<<"3", "0", "0">>, TokHash}, b \in {<<" ", "7">>}}
  \cup {Req("/color-correction", [correctionRed |-> <<"1", "6">>]),
        Req("/color-correction", [correctionGreen |-> <<"3", "0", "0">>,
                                  correctionBlue |-> <<" ", "7">>])}

(***************************************************************************)
(* Actions                                                                 *)
(***************************************************************************)
\* how a callback that ran into undefined behaviour can end: the stray
\* effect goes unnoticed, or the panic handler resets or halts the chip
Fates(trap, outside) ==
  IF trap THEN {"reset", "halt"}
  ELSE IF outside # NoOob THEN {"continue", "reset", "halt"}
  ELSE {"continue"}

\* the state a callback that served req leaves, o being what it did
Return(req, o, fate) ==
  /\ request' = req
  /\ response' = o.response
  /\ nvs_pixels' = o.nvs_pixels
  /\ UNCHANGED <<clear_prefs, nvs_faulty>>
  /\ IF fate = "reset"
     THEN \E retClear \in BeginResults, retCorr \in BeginResults, retPix \in BeginResults :
            LET b == SetupOutcome(o.nvs_pixels, o.nvs_corr, clear_prefs,
                                  retClear, retCorr, retPix) IN
            /\ strip' = b.strip
            /\ correction' = b.correction
            /\ nvs_corr' = b.nvs_corr
            /\ shown' = b.shown
            /\ events' = o.events \o <<"reset">> \o b.events
            /\ led' = LOW
            /\ oob' = [pixels |-> o.oob.pixels \cup b.oob.pixels,
                       strip |-> o.oob.strip \cup b.oob.strip]
            /\ pc' \in BootFates(b.oob)
     ELSE /\ strip' = o.strip
          /\ oob' = o.oob
          /\ correction' = o.correction
          /\ nvs_corr' = o.nvs_corr
          /\ shown' = o.shown
          /\ events' = o.events
          /\ led' = o.led
          /\ pc' = IF fate = "halt" THEN "halted" ELSE "handler"

ColorCorrection ==
  /\ pc = "loop"
  /\ \E req \in CorrectionRequests, ret \in BeginResults :
       \E h \in {handleColorCorrection(req, ret)} : Return(req, h, "continue")

SolidColor ==
  /\ pc = "loop"
  /\ \E req \in SolidRequests, ret \in BeginResults :
       \E h \in {handleSolidColor(req, ret)} : Return(req, h, "continue")

Gradient ==
  /\ pc = "loop"
  /\ \E req \in GradientRequests, ret \in BeginResults :
       \E h \in {handleGradient(req, ret)} :
         \E fate \in Fates(h.trap, h.oob) : Return(req, h, fate)

SetPixels ==
  /\ pc = "loop"
  /\ \E req \in PixelRequests, ret \in BeginResults :
       \E h \in {handleSetPixels(req, ret)} :
         \E fate \in Fates(h.trap, h.oob) : Return(req, h, fate)

\* GET / (or any method: server.on("/", handleRoot))
Root ==
  /\ pc = "loop"
  /\ \E exists \in BOOLEAN, ret \in BeginResults :
       \E h \in {handleRoot(exists, ret)} : Return(Req("/", NoArgs), h, "continue")

\* a request for any other uri
NotFound ==
  /\ pc = "loop"
  /\ \E h \in {handleNotFound} : Return(Req("/other", NoArgs), h, "continue")

Next ==
  Setup \/ loop \/ Root \/ NotFound \/ ColorCorrection \/ SolidColor \/ Gradient \/ SetPixels

Spec == Init /\ [][Next]_vars

(***************************************************************************)
(* A device whose NVS partition can refuse prefs.begin (not initialised,   *)
(* no free page): every prefs.begin of setup() and of the callbacks may    *)
(* return false.  The clients send a few requests of each kind.            *)
(***************************************************************************)
InitFaulty ==
  LET o == SetupOutcome(<<>>, NoCorrKeys, CLEAR_PREFS, FALSE, FALSE, FALSE) IN
  /\ strip = o.strip
  /\ correction = o.correction
  /\ nvs_pixels = <<>>
  /\ nvs_corr = o.nvs_corr
  /\ shown = o.shown
  /\ led = LOW
  /\ clear_prefs = CLEAR_PREFS
  /\ nvs_faulty = TRUE
  /\ pc = "setup"
  /\ request = NoRequest
  /\ response = NoResponse
  /\ events = o.events
  /\ oob = NoOob

FaultyCorrectionRequests ==
  {Req("/color-correction", [correctionRed |-> r, correctionGreen |-> <<"3", "0", "0">>,
                             correctionBlue |-> <<" ", "7">>]) : r \in {<<"1", "6">>, TokBad}}

FaultySolidRequests ==
  {Req("/solid", [solidColor |-> t]) : t \in {TokHexFF, TokBad}} \cup {Req("/solid", NoArgs)}

FaultyPixelRequests ==
  {Req("/pixels", [pixelValues |-> Join(l)]) :
     l \in {<<TokSpaceHexFF>>, <<TokZero, TokBad>>}
           \cup {[i \in 1..n |-> TokZero] : n \in {num_pixels, num_pixels + 1}}}

FaultyGradientRequests ==
  {Req("/gradient", [gradientLedsPerSegment |-> l, gradientStartColor |-> TokHexFF,
                     gradientMiddleColor |-> TokDecOverflow, gradientEndColor |-> c]) :
     l \in {Decimal(1), Decimal(num_pixels + 1)}, c \in {Tok0xFF, TokBad}}

FaultyColorCorrection ==
  /\ pc = "loop"
  /\ \E req \in FaultyCorrectionRequests, ret \in BeginResults :
       \E h \in {handleColorCorrection(req, ret)} : Return(req, h, "continue")

FaultySolidColor ==
  /\ pc = "loop"
  /\ \E req \in FaultySolidRequests, ret \in BeginResults :
       \E h \in {handleSolidColor(req, ret)} : Return(req, h, "continue")

FaultyGradient ==
  /\ pc = "loop"
  /\ \E req \in FaultyGradientRequests, ret \in BeginResults :
       \E h \in {handleGradient(req, ret)} :
         \E fate \in Fates(h.trap, h.oob) : Return(req, h, fate)

FaultySetPixels ==
  /\ pc = "loop"
  /\ \E req \in FaultyPixelRequests, ret \in BeginResults :
       \E h \in {handleSetPixels(req, ret)} :
         \E fate \in Fates(h.trap, h.oob) : Return(req, h, fate)

NextFaulty ==
  Setup \/ loop \/ Root \/ NotFound \/ FaultyColorCorrection \/ FaultySolidColor \/ FaultyGradient \/ FaultySetPixels

SpecFaulty == InitFaulty /\ [][NextFaulty]_vars

(***************************************************************************)
(* The firmware built with #define CLEAR_PREFS 1.  On its first power-up   *)
(* the read-write prefs.begin creates "color_corr"; "pixels" does not      *)
(* exist yet.                                                              *)
(***************************************************************************)
InitClearPrefs ==
  LET o == SetupOutcome(<<>>, NoCorrKeys, 1, TRUE, TRUE, FALSE) IN
  /\ strip = o.strip
  /\ correction = o.correction
  /\ nvs_pixels = <<>>
  /\ nvs_corr = o.nvs_corr
  /\ shown = o.shown
  /\ led = LOW
  /\ clear_prefs = 1
  /\ nvs_faulty = FALSE
  /\ pc = "setup"
  /\ request = NoRequest
  /\ response = NoResponse
  /\ events = o.events
  /\ oob = NoOob

SpecClearPrefs == InitClearPrefs /\ [][Next]_vars

(***************************************************************************)
(* A device whose namespace "pixels" holds a "color_vals" blob that this   *)
(* build did not write: one left by a build with another num_pixels, or by *)
(* other software, of any length in bytes up to one word more than the     *)
(* strip.  The clients send the few requests of SpecFaulty; prefs.begin    *)
(* succeeds where the namespace exists.                                    *)
(***************************************************************************)
ForeignWords == {U32(0, 255), U32(1, 65280)}

\* most whole words of a foreign blob
MaxForeignWords == num_pixels + 1

ForeignBlobs ==
  {w \o t : w \in UNION {SeqsOfLen(ForeignWords, n) : n \in 0..MaxForeignWords},
            t \in {<<>>} \cup {<<PartialWord(k)>> : k \in 1..3}}
  \ {<<>>}

InitForeignBlob ==
  \E blob \in ForeignBlobs :
    LET o == SetupOutcome(blob, NoCorrKeys, CLEAR_PREFS, FALSE, FALSE, TRUE) IN
    /\ strip = o.strip
    /\ correction = o.correction
    /\ nvs_pixels = blob
    /\ nvs_corr = o.nvs_corr
    /\ shown = o.shown
    /\ led = LOW
    /\ clear_prefs = CLEAR_PREFS
    /\ nvs_faulty = FALSE
    /\ pc \in BootFates(o.oob)
    /\ request = NoRequest
    /\ response = NoResponse
    /\ events = o.events
    /\ oob = o.oob

SpecForeignBlob == InitForeignBlob /\ [][NextFaulty]_vars

(***************************************************************************)
(* Vocabulary of the properties                                            *)
(***************************************************************************)
Range(seq) == {seq[i] : i \in 1..Len(seq)}

\* the comma-separated entries of a pixelValues text
RECURSIVE Split(_)
Split(values) ==
  IF \A i \in 1..Len(values) : values[i] # ","
  THEN <<values>>
  ELSE LET c == CHOOSE i \in 1..Len(values) :
                  values[i] = "," /\ \A j \in 1..(i - 1) : values[j] # ","
       IN <<SubSeq(values, 1, c - 1)>> \o Split(SubSeq(values, c + 1, Len(values)))

\* every token a request carries
TokensOf(req) == UNION {Range(Split(req.args[k])) : k \in DOMAIN req.args}

\* the 24-bit color a token stands for once trimmed
ColorOf(token) == Low24(getNumber(trim(token)))

\* a token with no digit at all: empty after trim, or a lone '#'
HasNoDigits(token) == trim(token) \in {<<>>, <<"#">>}

ErrorResponses == {RespInvalidValues, RespInvalidValue, RespNoForm, RespNoCorrForm, RespTooLong}

\* a callback has just returned for a request of this uri
Served(uri) == pc = "handler" /\ request.uri = uri

\* the list a /pixels request carries
ListOf(req) == Split(req.args.pixelValues)

GradientFields ==
  {"gradientLedsPerSegment", "gradientStartColor", "gradientMiddleColor", "gradientEndColor"}

\* a /gradient request with its four fields, each a valid number
ValidGradient(req) ==
  /\ req.uri = "/gradient"
  /\ GradientFields \subseteq DOMAIN req.args
  /\ \A k \in GradientFields : isValidNumber(req.args[k])

(***************************************************************************)
(* C1: whenever no command is in progress and every store write has        *)
(* succeeded, the words stored under "pixels"/"color_vals", masked to 24   *)
(* bits, equal the in-memory pixel buffer at every index, so that a reset  *)
(* restores the colors that were displayed.                                *)
(* Fails: set-pixels with fewer than num_pixels values stores zeros for    *)
(* the tail while the buffer keeps the tail's colors.                      *)
(***************************************************************************)
C1_StoreMatchesBuffer ==
  (pc \in {"handler", "loop"} /\ ~nvs_faulty /\ nvs_pixels # <<>>)
    => \A i \in Pixels : Low24(nvs_pixels[i + 1]) = strip[i]

(***************************************************************************)
(* C2: a command rejected because one of its tokens fails number           *)
(* validation answers with an error text, leaves the pixel buffer, the     *)
(* color correction and both namespaces as they were and drives no render. *)
(***************************************************************************)
C2_RejectedLeavesState ==
  [][(pc' = "handler" /\ \E t \in TokensOf(request') : ~isValidNumber(t))
       => /\ response' \in ErrorResponses
          /\ strip' = strip
          /\ correction' = correction
          /\ nvs_pixels' = nvs_pixels
          /\ nvs_corr' = nvs_corr
          /\ shown' = shown
          /\ Range(events') \cap {"show", "showColor", "putBytes", "putUChar"} = {}]_vars

\* a list whose third entry is invalid was rejected on a lit strip with a stored blob
C2_Witness ==
  /\ Served("/pixels")
  /\ "pixelValues" \in DOMAIN request.args
  /\ Len(ListOf(request)) >= 3
  /\ isValidNumber(ListOf(request)[1])
  /\ ~isValidNumber(ListOf(request)[3])
  /\ response = RespInvalidValues
  /\ \E i \in Pixels : strip[i] # Black
  /\ nvs_pixels # <<>>

(***************************************************************************)
(* C3: set-pixels with a list of more than num_pixels valid values         *)
(* succeeds, pixels 0..num_pixels-1 take the first num_pixels values, and  *)
(* nothing is written outside pixels[] or strip[].                         *)
(* Fails: with num_pixels + 1 values the last one is written at index      *)
(* num_pixels of both arrays; with more the command is rejected.           *)
(***************************************************************************)
C3_ExcessIgnored ==
  (/\ request.uri = "/pixels"
   /\ "pixelValues" \in DOMAIN request.args
   /\ Len(ListOf(request)) > num_pixels
   /\ \A t \in Range(ListOf(request)) : isValidNumber(t))
    => /\ pc = "handler"
       /\ response = RespOk
       /\ oob = NoOob
       /\ \A i \in Pixels : strip[i] = ColorOf(ListOf(request)[i + 1])

(***************************************************************************)
(* C4: set-pixels with a valid list of k values, 1 <= k <= num_pixels,     *)
(* overwrites in-memory pixels 0..k-1 with the list values masked to 24    *)
(* bits and leaves pixels k..num_pixels-1 as they were.                    *)
(***************************************************************************)
C4_PrefixOverwritten ==
  [][(/\ request'.uri = "/pixels"
      /\ "pixelValues" \in DOMAIN request'.args
      /\ Len(ListOf(request')) <= num_pixels
      /\ \A t \in Range(ListOf(request')) : isValidNumber(t))
       => /\ pc' = "handler"
          /\ response' = RespOk
          /\ oob' = NoOob
          /\ \A i \in Pixels :
               strip'[i] = IF i < Len(ListOf(request'))
                           THEN ColorOf(ListOf(request')[i + 1])
                           ELSE strip[i]]_vars

\* two values were written over a strip whose last pixel kept another, lit color
C4_Witness ==
  /\ Served("/pixels")
  /\ "pixelValues" \in DOMAIN request.args
  /\ response = RespOk
  /\ Len(ListOf(request)) = 2
  /\ strip[0] = ColorOf(ListOf(request)[1])
  /\ strip[1] = ColorOf(ListOf(request)[2])
  /\ strip[0] # strip[1]
  /\ strip[num_pixels - 1] \notin {Black, strip[0], strip[1]}

(***************************************************************************)
(* C5: set-gradient with segment_length = 0 is rejected with a validation  *)
(* error before the segment count is computed; no division by zero occurs  *)
(* and the buffer and the store are unchanged.                             *)
(* Fails: 0 passes the only check (leds_per_seg > num_pixels) and the      *)
(* segment count divides by it.                                            *)
(***************************************************************************)
C5_ZeroLengthRejected ==
  (ValidGradient(request) /\ request.args.gradientLedsPerSegment = Decimal(0))
    => /\ pc = "handler"
       /\ response \in ErrorResponses
       /\ "divide by zero" \notin Range(events)

(***************************************************************************)
(* C6: set-gradient with segment_length > num_pixels is rejected with an   *)
(* error response, and the pixel buffer, the stored blob and the rendered  *)
(* output are unchanged.                                                   *)
(***************************************************************************)
C6_TooLongRejected ==
  [][(/\ ValidGradient(request')
      /\ request'.args.gradientLedsPerSegment \in {Decimal(n) : n \in (num_pixels + 1)..9} \cup {Tok2p24})
       => /\ pc' = "handler"
          /\ response' = RespTooLong
          /\ strip' = strip
          /\ nvs_pixels' = nvs_pixels
          /\ shown' = shown
          /\ Range(events') \cap {"show", "showColor", "putBytes"} = {}]_vars

\* a too long segment was refused on a lit strip with a stored blob
C6_Witness ==
  /\ Served("/gradient")
  /\ ValidGradient(request)
  /\ request.args.gradientLedsPerSegment = Decimal(num_pixels + 1)
  /\ response = RespTooLong
  /\ \E i \in Pixels : strip[i] # Black
  /\ nvs_pixels # <<>>

(***************************************************************************)
(* C7: a command that lacks a required field is rejected and changes       *)
(* nothing; set-correction without correctionGreen or correctionBlue does  *)
(* not change the active correction or the stored correction triple.       *)
(* Fails: handleColorCorrection tests correctionRed three times, reads     *)
(* the absent fields as "" and applies them as 0.                          *)
(***************************************************************************)
C7_MissingFieldRejected ==
  [][(/\ request'.uri = "/color-correction"
      /\ ~({"correctionRed", "correctionGreen", "correctionBlue"} \subseteq DOMAIN request'.args))
       => /\ response' \in ErrorResponses
          /\ correction' = correction
          /\ nvs_corr' = nvs_corr]_vars

(***************************************************************************)
(* C8: no command is applied with a token that has no digits (empty after  *)
(* trim, or '#' alone): such a token is rejected, never read as 0.         *)
(* Fails: isValidNumber accepts both and getNumber reads them as 0.        *)
(***************************************************************************)
C8_NoDigitsRejected ==
  (pc = "handler" /\ \E t \in TokensOf(request) : HasNoDigits(t))
    => response \notin {RespOk, RespCorrOk}

(***************************************************************************)
(* C9: white space around a token is trimmed before validation and before  *)
(* conversion in every command: the value applied is the value of the      *)
(* trimmed token.                                                          *)
(* Fails: handleSolidColor and handleGradient convert the untrimmed text,  *)
(* and " #FF" is read as 0.                                                *)
(***************************************************************************)
C9_TrimmedValueApplied ==
  /\ (Served("/solid") /\ response = RespOk)
       => \A i \in Pixels : strip[i] = ColorOf(request.args.solidColor)
  /\ (Served("/pixels") /\ response = RespOk /\ Len(ListOf(request)) <= num_pixels)
       => \A i \in 0..(Len(ListOf(request)) - 1) : strip[i] = ColorOf(ListOf(request)[i + 1])
  /\ (Served("/gradient") /\ response = RespOk /\ num_pixels >= 2
      /\ request.args.gradientLedsPerSegment = Decimal(1))
       => strip[0] = ColorOf(request.args.gradientStartColor)
  /\ (Served("/color-correction") /\ response = RespCorrOk)
       => correction[1] = constrain255(getNumber(trim(request.args.correctionRed)))

WroteWholeBuffer ==
  /\ pc = "handler"
  /\ response = RespOk
  /\ \/ request.uri \in {"/solid", "/gradient"}
     \/ request.uri = "/pixels" /\ Len(ListOf(request)) = num_pixels

\* the buffer setup() builds from the store as it is now, prefs.begin succeeding
LoadedStrip == SetupOutcome(nvs_pixels, nvs_corr, clear_prefs, TRUE, TRUE, TRUE).strip

(***************************************************************************)
(* C11: when the last successful command wrote all num_pixels pixels and   *)
(* saved them, loading the stored words at boot gives a buffer equal to    *)
(* the saved one at every index (24-bit colors).                           *)
(***************************************************************************)
C11_RoundTrip ==
  (WroteWholeBuffer /\ "putBytes" \in Range(events))
    => \A i \in Pixels : LoadedStrip[i] = strip[i]

\* a gradient of one LED per segment, first and last pixel different, was
\* saved and loads back as it is
C11_Witness ==
  /\ WroteWholeBuffer
  /\ "putBytes" \in Range(events)
  /\ request.uri = "/gradient"
  /\ strip[0] # strip[num_pixels - 1]
  /\ LoadedStrip = strip

\* what the callback registered for the uri of a command leaves behind
Callback(req, ret) ==
  CASE req.uri = "/color-correction" -> handleColorCorrection(req, ret)
    [] req.uri = "/solid" -> handleSolidColor(req, ret)
    [] req.uri = "/gradient" -> handleGradient(req, ret)
    [] req.uri = "/pixels" -> handleSetPixels(req, ret)

\* ev has b somewhere after a
Later(ev, a, b) == \E i, j \in 1..Len(ev) : i < j /\ ev[i] = a /\ ev[j] = b

(***************************************************************************)
(* C12: when prefs.begin for writing fails during a successful set-solid,  *)
(* set-gradient, set-pixels or set-correction, the buffer and the          *)
(* correction are updated as if it had succeeded and FastLED.show() still  *)
(* runs; both namespaces keep their previous content and the failure is    *)
(* printed to the serial log.                                              *)
(***************************************************************************)
C12_SaveFailureTolerated ==
  [][(/\ pc' = "handler"
      /\ response' \in {RespOk, RespCorrOk}
      /\ Range(events') \cap {"begin failed:pixels", "begin failed:color_corr"} # {})
       => /\ nvs_pixels' = nvs_pixels
          /\ nvs_corr' = nvs_corr
          /\ \E h \in {Callback(request', TRUE)} :
               strip' = h.strip /\ correction' = h.correction
          /\ shown' = Show(strip', correction')
          /\ \/ Later(events', "begin failed:pixels", "show")
             \/ Later(events', "begin failed:color_corr", "show")
          /\ Range(events') \cap {LogNoSavePixels, LogNoSaveCorr} # {}]_vars

\* set-solid lit the strip and drove the LEDs while the store, never
\* written, stayed empty
C12_Witness ==
  /\ Served("/solid")
  /\ response = RespOk
  /\ "begin failed:pixels" \in Range(events)
  /\ LogNoSavePixels \in Range(events)
  /\ \A i \in Pixels : strip[i] # Black
  /\ shown.pixels = strip
  /\ nvs_pixels = <<>>

\* the calls of the last setup(): what follows the last "reset" of events
SetupEvents ==
  IF "reset" \in Range(events)
  THEN LET r == CHOOSE i \in 1..Len(events) :
                  events[i] = "reset" /\ \A j \in (i + 1)..Len(events) : events[j] # "reset"
       IN SubSeq(events, r + 1, Len(events))
  ELSE events

\* how many times e occurs in ev
Count(ev, e) == Cardinality({i \in 1..Len(ev) : ev[i] = e})

(***************************************************************************)
(* C13: setup() on a store that was never written (no "color_vals" blob,   *)
(* no corr_r, corr_g, corr_b) leaves an all-black buffer of num_pixels     *)
(* pixels and the correction (255,255,255), and calls FastLED.show() once  *)
(* with that state.                                                        *)
(***************************************************************************)
C13_EmptyStoreBoot ==
  (pc = "setup" /\ nvs_pixels = <<>> /\ nvs_corr = NoCorrKeys)
    => /\ strip = ClearedStrip
       /\ DOMAIN strip = Pixels
       /\ correction = <<255, 255, 255>>
       /\ shown = Show(ClearedStrip, <<255, 255, 255>>)
       /\ Count(SetupEvents, "show") = 1
       /\ SetupEvents[Len(SetupEvents)] = "show"

\* a callback had lit the buffer without being able to save it; after the
\* reset setup() opened "color_corr", found no key and no blob
C13_Witness ==
  /\ pc = "setup"
  /\ nvs_pixels = <<>>
  /\ nvs_corr = NoCorrKeys
  /\ Later(events, "strip", "reset")
  /\ Later(events, "reset", "begin:color_corr")
  /\ strip = ClearedStrip
  /\ correction = <<255, 255, 255>>

\* the triple stored under corr_r, corr_g, corr_b
StoredCorrection == <<nvs_corr.corr_r, nvs_corr.corr_g, nvs_corr.corr_b>>

(***************************************************************************)
(* C14: only set-correction changes the color correction.  Any other step  *)
(* that writes inside its arrays (set-solid, set-gradient, set-pixels, the *)
(* pages, a reset) leaves the active correction and the stored triple as   *)
(* they were; after a successful set-correction that could write the       *)
(* store, corr_r, corr_g, corr_b equal the active correction, each within  *)
(* 0..255.                                                                 *)
(***************************************************************************)
C14_CorrectionFrame ==
  [][/\ (request'.uri # "/color-correction" /\ oob' = NoOob)
          => correction' = correction /\ nvs_corr' = nvs_corr
     /\ (/\ request'.uri = "/color-correction"
         /\ response' = RespCorrOk
         /\ "putUChar" \in Range(events'))
          => /\ StoredCorrection' = correction'
             /\ \A k \in 1..3 : correction'[k] \in 0..255]_vars

\* set-solid lit the strip after a set-correction: the correction set and
\* stored by the latter is still the active one
C14_Witness ==
  /\ Served("/solid")
  /\ response = RespOk
  /\ correction = <<16, 255, 7>>
  /\ StoredCorrection = correction
  /\ \A i \in Pixels : strip[i] # Black

(***************************************************************************)
(* C15: set-solid with a valid color sets every one of the num_pixels      *)
(* in-memory pixels to that color masked to 24 bits, whatever the pixel    *)
(* held before.  The color is the number the handler reads from the field  *)
(* (how it reads white space and overflow is the matter of C9 and C16).    *)
(***************************************************************************)
C15_SolidFillsAll ==
  [][(/\ request'.uri = "/solid"
      /\ hasArg(request', "solidColor")
      /\ isValidNumber(request'.args.solidColor))
       => /\ pc' = "handler"
          /\ response' = RespOk
          /\ DOMAIN strip' = Pixels
          /\ \A i \in Pixels : strip'[i] = Low24(getNumber(request'.args.solidColor))]_vars

\* 16777471 = 2^24 + 255 was stored as it is and every pixel holds 255
C15_Witness ==
  /\ Served("/solid")
  /\ response = RespOk
  /\ request.args.solidColor = TokDec24
  /\ nvs_pixels # <<>>
  /\ \A i \in Pixels : nvs_pixels[i + 1] = U32(1, 255) /\ strip[i] = 255

\* a token that is a decimal number once trimmed: digits only, at least one
IsDecimal(token) ==
  /\ trim(token) # <<>>
  /\ \A i \in 1..Len(trim(token)) : trim(token)[i] \in DecDigits

\* the value of a decimal digit
DigitOf(c) == CHOOSE n \in 0..9 : DigitChars[n + 1] = c

\* the value of the decimal text s modulo 2^24, acc being the value so far
RECURSIVE DecimalMod24(_, _)
DecimalMod24(s, acc) ==
  IF s = <<>> THEN acc ELSE DecimalMod24(Tail(s), (acc * 10 + DigitOf(Head(s))) % Two24)

RECURSIVE StripZeros(_)
StripZeros(s) == IF s # <<>> /\ Head(s) = "0" THEN StripZeros(Tail(s)) ELSE s

\* a <= b for decimal texts of the same length
RECURSIVE DigitsLeq(_, _)
DigitsLeq(a, b) ==
  \/ a = <<>>
  \/ DigitOf(Head(a)) < DigitOf(Head(b))
  \/ Head(a) = Head(b) /\ DigitsLeq(Tail(a), Tail(b))

\* 2^32 - 1
TextUlongMax == <<"4", "2", "9", "4", "9", "6", "7", "2", "9", "5">>

\* the value of the decimal text s is at most 2^32 - 1
FitsUlong(s) ==
  LET z == StripZeros(s) IN
  \/ Len(z) < Len(TextUlongMax)
  \/ Len(z) = Len(TextUlongMax) /\ DigitsLeq(z, TextUlongMax)

\* the decimal value of the token reduced modulo 2^32 and masked to 24 bits
WrappedColor(token) == DecimalMod24(trim(token), 0)

\* the same, except that a value above 2^32 - 1 counts as 2^32 - 1
SaturatedColor(token) ==
  IF FitsUlong(trim(token)) THEN DecimalMod24(trim(token), 0) ELSE Two24 - 1

(***************************************************************************)
(* C16: for every valid decimal token the color applied to a pixel is the  *)
(* decimal value of the token reduced by 32-bit wraparound and masked to   *)
(* its low 24 bits; there is no saturation.                                *)
(* Fails: strtoul returns ULONG_MAX for a value above 2^32 - 1, so         *)
(* 4294967296 is applied as 0xFFFFFF, not as 0.                            *)
(***************************************************************************)
C16_DecimalWraps ==
  /\ (Served("/solid") /\ response = RespOk /\ IsDecimal(request.args.solidColor))
       => \A i \in Pixels : strip[i] = WrappedColor(request.args.solidColor)
  /\ (Served("/pixels") /\ response = RespOk /\ Len(ListOf(request)) <= num_pixels)
       => \A i \in 0..(Len(ListOf(request)) - 1) :
            IsDecimal(ListOf(request)[i + 1]) => strip[i] = WrappedColor(ListOf(request)[i + 1])

\* C16 as amended: the color applied is the decimal value masked to 24
\* bits when the value is at most 2^32 - 1, and 0xFFFFFF (the low 24 bits
\* of ULONG_MAX) when it is larger.
C16_DecimalSaturates ==
  /\ (Served("/solid") /\ response = RespOk /\ IsDecimal(request.args.solidColor))
       => \A i \in Pixels : strip[i] = SaturatedColor(request.args.solidColor)
  /\ (Served("/pixels") /\ response = RespOk /\ Len(ListOf(request)) <= num_pixels)
       => \A i \in 0..(Len(ListOf(request)) - 1) :
            IsDecimal(ListOf(request)[i + 1]) => strip[i] = SaturatedColor(ListOf(request)[i + 1])

\* set-solid with 4294967296 = 2^32 left every pixel at 0xFFFFFF
C16_Witness ==
  /\ Served("/solid")
  /\ response = RespOk
  /\ request.args.solidColor = TokDecOverflow
  /\ ~FitsUlong(request.args.solidColor)
  /\ \A i \in Pixels : strip[i] = Two24 - 1

(***************************************************************************)
(* C17: with CLEAR_PREFS set to 1 every reboot deletes all saved           *)
(* preferences: after setup() the saved pixel values and the saved         *)
(* correction are gone, the buffer is all black and the correction is at   *)
(* its default.                                                            *)
(* Fails: setup() clears the namespace "color_corr" only; the blob of      *)
(* "pixels" stays and is loaded into the buffer.                           *)
(***************************************************************************)
C17_RebootForgetsAll ==
  (clear_prefs = 1 /\ pc = "setup")
    => /\ nvs_corr = NoCorrKeys
       /\ correction = <<255, 255, 255>>
       /\ nvs_pixels = <<>>
       /\ strip = ClearedStrip

\* ceil(a / b) for b > 0
CeilDiv(a, b) == (a \div b) + (IF a % b = 0 THEN 0 ELSE 1)

\* segment length and colors of a /gradient request as the handler reads them
SegLen(req) == getNumber(req.args.gradientLedsPerSegment).lo

\* the representative colors of n segments, n <= num_pixels: entries
\* 0..n-1 of the three-color gradient
Representatives(req, n) ==
  fill_gradient_RGB(ClearedStrip, n,
                    Low24(getNumber(req.args.gradientStartColor)),
                    Low24(getNumber(req.args.gradientMiddleColor)),
                    Low24(getNumber(req.args.gradientEndColor)))

(***************************************************************************)
(* C18: after a successful set-gradient with segment length L,             *)
(* 1 <= L <= num_pixels, the number of segments is ceil(num_pixels / L)    *)
(* and every pixel i of 0..num_pixels-1 holds the representative color of  *)
(* segment floor(i / L): the last segment stops at num_pixels - 1 and no   *)
(* pixel keeps an earlier or an unassigned value.                          *)
(***************************************************************************)
C18_SegmentsReplicated ==
  (Served("/gradient") /\ response = RespOk)
    => /\ SegLen(request) \in 1..num_pixels
       /\ NumSegs(SegLen(request)) = CeilDiv(num_pixels, SegLen(request))
       /\ \A i \in Pixels :
            strip[i] = Representatives(request, CeilDiv(num_pixels, SegLen(request)))
                         [i \div SegLen(request)]

\* the segment length does not divide num_pixels: the last segment is cut
\* short and holds another color than the first
C18_Witness ==
  /\ Served("/gradient")
  /\ response = RespOk
  /\ SegLen(request) > 1
  /\ num_pixels % SegLen(request) # 0
  /\ strip[0] = strip[SegLen(request) - 1]
  /\ strip[num_pixels - 1] # strip[0]
  /\ strip[num_pixels - 1]
       = Representatives(request, CeilDiv(num_pixels, SegLen(request)))
           [CeilDiv(num_pixels, SegLen(request)) - 1]

(***************************************************************************)
(* C19: in every successful set-solid, set-gradient and set-pixels the     *)
(* buffer is written first, the store next, then FastLED.show(), then the  *)
(* success response; the LEDs are not driven and the response is not sent  *)
(* before the buffer and the store are written.                            *)
(* Fails: handleSetPixels sends the success response before it touches     *)
(* strip[] or the store, and handleSolidColor drives the LEDs with         *)
(* FastLED.showColor() before both.                                        *)
(***************************************************************************)
C19_MutateSaveShowRespond ==
  (/\ pc = "handler"
   /\ request.uri \in {"/solid", "/gradient", "/pixels"}
   /\ response = RespOk
   /\ "putBytes" \in Range(events))
    => /\ Later(events, "strip", "putBytes")
       /\ Later(events, "putBytes", "show")
       /\ Later(events, "show", "send")
       /\ ~Later(events, "send", "putBytes")
       /\ ~Later(events, "show", "putBytes")
       /\ ~Later(events, "showColor", "putBytes")

\* a call of prefs.begin, whatever it returned
IsBegin(e) == e \in {Begin(name, ret) : name \in {"pixels", "color_corr"}, ret \in BOOLEAN}

\* whether a namespace is left open by the calls ev, `open` telling
\* whether one was open before them
RECURSIVE OpenAfter(_, _)
OpenAfter(ev, open) ==
  IF ev = <<>> THEN open
  ELSE OpenAfter(Tail(ev), IF IsBegin(Head(ev)) THEN TRUE
                           ELSE IF Head(ev) = "end" THEN FALSE
                           ELSE open)

\* prefs.begin is never called while a namespace is open
RECURSIVE NeverNested(_, _)
NeverNested(ev, open) ==
  \/ ev = <<>>
  \/ /\ ~(open /\ IsBegin(Head(ev)))
     /\ NeverNested(Tail(ev), IF IsBegin(Head(ev)) THEN TRUE
                              ELSE IF Head(ev) = "end" THEN FALSE
                              ELSE open)

(***************************************************************************)
(* C20: every namespace that setup() or a callback opens is closed by      *)
(* prefs.end() before it returns, on every path: prefs.begin having        *)
(* failed, validation errors, early returns.  No namespace is open when    *)
(* the next request is served, and none is opened over an open one.        *)
(***************************************************************************)
C20_NamespaceClosed ==
  /\ ~OpenAfter(events, FALSE)
  /\ NeverNested(events, FALSE)

\* set-pixels could not open "pixels" for writing and called prefs.end()
\* all the same
C20_Witness ==
  /\ Served("/pixels")
  /\ response = RespOk
  /\ Later(events, "begin failed:pixels", "end")
  /\ ~OpenAfter(events, FALSE)

\* setup() has just run after a power-up or a plain reset and could open
\* the namespace "pixels"
BootedFromStore ==
  /\ pc \in {"setup", "halted"}
  /\ events # <<>>
  /\ Head(events) = "led_low"
  /\ "begin:pixels" \in Range(events)

\* the length in bytes of the stored blob
StoredLength == getBytesLength(nvs_pixels)

C22_LedLowAfterCallback ==
  pc \in {"handler", "loop"} => led = LOW

====
